---- MODULE Spec2Model ----
(***************************************************************************)
(* CrisisEye frontend: the request orchestration of the useFloodData hook  *)
(* (frontend/src/hooks/useFloodData.ts), of the App component              *)
(* (frontend/src/App.tsx) and of the Sidebar form that drives them; the    *)
(* connection monitor of App; the loss estimate, the alert and the report  *)
(* of the Dashboard (frontend/src/components/Dashboard); the               *)
(* RectangleSelector of the map; and the overlay App hands to the map.     *)
(*                                                                         *)
(* JavaScript runs one task at a time: an event handler, or the            *)
(* continuation of an `await` together with every microtask it schedules,  *)
(* runs to its next `await` on a network call without interleaving.  Each  *)
(* action below is one such run: the start of an operation up to its       *)
(* first network await, or the arrival of one network response up to the   *)
(* next network await or the end of the handler chain.                     *)
(*                                                                         *)
(* A value of type `T | null` is an option: NULL, or Some(v).              *)
(***************************************************************************)
EXTENDS Integers, Sequences, FiniteSets, TLC

NULL == <<>>
Some(v) == <<v>>

\* Operations issued in one behaviour of Spec (each is one invocation of a handler).
MaxOps == 3
\* Operations issued in one behaviour of SidebarSpec.
MaxSidebarOps == 1
\* alert() dialogs shown in one behaviour.
MaxAlerts == 1
\* invocations per behaviour of LiveSpec
MaxLiveOps == 2
\* analysis fields of the Sidebar form edited away from their defaults at once
MaxFormEdits == 1
\* operations issued in one behaviour of HookSpec
MaxHookOps == 2
\* operations issued in one behaviour of GatedSpec
MaxGatedOps == 2
\* operations issued in one behaviour of OverlaySpec
MaxOverlayOps == 2
\* periods of the probe timer observed in one behaviour of MonitorSpec
MaxTicks == 3
\* orchestrator operations issued in one behaviour of MonitorSpec
MaxMonitorOps == 1
\* largest buildings_affected of an analysis result shown by the Dashboard
MaxBuildings == 90
\* seconds the clock runs past midnight in one behaviour of DashboardSpec
MaxClock == 1
\* boxes emitted by the selector in one behaviour of SelectorSpec
MaxEmissions == 2
\* operations submitted in one behaviour of SelectorSpec
MaxSelectorOps == 1

VARIABLES
    state,            \* useFloodData: {result, buildings, isLoading, error}
    prediction,       \* App: PredictionResponse | null
    isPredicting,     \* App: boolean
    predictionError,  \* App: string | null
    selectedBbox,     \* App: BoundingBox | null
    mode,             \* Sidebar: "analysis" | "prediction"
    predictionHours,  \* Sidebar: number
    dateBefore,       \* Sidebar: string, the value of the first date input
    dateAfter,        \* Sidebar: string, the value of the second date input
    polarization,     \* Sidebar: "VV" | "VH"
    tasks,            \* the invocations of the async handlers, in issue order
    alerts,           \* number of alert() dialogs shown by Sidebar.handleSubmit
    isConnected,      \* App: boolean
    monitor,          \* the connection effect: "inactive" | "active" | "torn"
    interval,         \* whether the setInterval timer of the effect is registered
    probes,           \* the checkHealth calls, in issue order
    ticks,            \* periods of ProbeIntervalMs elapsed since the effect ran
    view,             \* what Dashboard rendered last, or NULL
    report,           \* the text downloadReport produced last, or NULL
    download,         \* the date in the file name of the last download, or NULL
    utcOffset,        \* the browser's time zone: seconds its local time is ahead of UTC
    clock,            \* the wall clock `new Date()` reads, in seconds
    drawing,          \* RectangleSelector: boolean
    startPoint,       \* RectangleSelector: L.LatLng | null
    bounds,           \* RectangleSelector: L.LatLngBounds | null
    pointer,          \* the last mouse event the map delivered, or NULL
    emissions         \* number of calls of RectangleSelector's onSelect

\* the state of the connection monitor
monitorVars == <<isConnected, monitor, interval, probes, ticks>>

\* the output of the Dashboard component, and the clock and zone it reads
dashboardVars == <<view, report, download, utcOffset, clock>>

\* the state of the RectangleSelector, and the mouse events it has seen
selectorVars == <<drawing, startPoint, bounds, pointer, emissions>>

\* the fields of the Sidebar form that only the analysis mode shows
formVars == <<dateBefore, dateAfter, polarization>>

\* what no handler of the orchestrator touches, nor the Sidebar's mode
\* buttons, slider and submit
outsideOrchestrator == <<formVars, monitorVars, dashboardVars, selectorVars>>

\* the state of App, of the useFloodData hook and of the Sidebar
appVars == <<state, prediction, isPredicting, predictionError, selectedBbox,
             mode, predictionHours, formVars, tasks, alerts>>

vars == <<appVars, monitorVars, dashboardVars, selectorVars>>

(***************************************************************************)
(* Data                                                                    *)
(***************************************************************************)

\* Coordinates are in hundredths of a degree.
DemoBbox == [min_lon |-> 1700, min_lat |-> 5108, max_lon |-> 1710, max_lat |-> 5113]

\* Boxes a user selection can commit (RectangleSelector's onSelect).
UserBboxes == {[min_lon |-> 1690, min_lat |-> 5100, max_lon |-> 1705, max_lat |-> 5110]}

Modes == {"analysis", "prediction"}

\* Time zones of the browser, as the seconds local time is ahead of UTC:
\* New York, UTC and Warsaw in winter.  Only the Dashboard reads the zone.
UTC == 0
UtcOffsets == {-5 * 60 * 60, UTC, 60 * 60}

\* Sidebar form defaults.
DefaultDateBefore == "2024-01-01"
DefaultDateAfter == "2024-01-15"
DefaultPolarization == "VV"
DefaultPredictionHours == 6
SliderMin == 1
SliderMax == 24

\* Values the horizon slider is moved to.
SliderStops == {SliderMin, SliderMax}

\* prediction_hours values a caller of handlePredict passes (a number).
HorizonInputs == {0, 1, 24, 25}

\* What axios rejects with: an Error carrying a message.
AxiosErrors ==
    { [isError |-> TRUE, message |-> "Network Error"],
      [isError |-> TRUE, message |-> "timeout of 60000ms exceeded"] }

\* Values typed into the two date inputs, and the polarization buttons.
DateBeforeInputs == {DefaultDateBefore, "2023-12-24"}
DateAfterInputs == {DefaultDateAfter, "2024-01-20"}
Polarizations == {"VV", "VH"}

\* The requests a caller of handleAnalyze passes.
AnalysisRequests ==
    { [bbox |-> b, date_before |-> DefaultDateBefore, date_after |-> DefaultDateAfter,
       polarization |-> DefaultPolarization] : b \in UserBboxes }

PredictionRequests ==
    { [bbox |-> b, prediction_hours |-> h] :
        b \in UserBboxes, h \in HorizonInputs }

\* The response bodies; every response is a distinct object, told apart
\* here by the invocation it answers.
\* The overlays of the answer to invocation t (FloodGeoJSON).
FloodGeoJSON(t) == [type |-> "FeatureCollection", features |-> <<[layer |-> "flood", id |-> t]>>]
RiskZonesGeoJSON(t) == [type |-> "FeatureCollection", features |-> <<[layer |-> "risk", id |-> t]>>]
AnalysisResponse(t) ==
    [id |-> t, status |-> "completed", flood_geojson |-> Some(FloodGeoJSON(t))]
PredictionResponse(t) ==
    [id |-> t, status |-> "completed", risk_zones_geojson |-> Some(RiskZonesGeoJSON(t))]
\* flood_geojson and risk_zones_geojson are nullable: the answers with and
\* without an overlay
AnalysisResponses(t) ==
    {AnalysisResponse(t), [AnalysisResponse(t) EXCEPT !.flood_geojson = NULL]}
PredictionResponses(t) ==
    {PredictionResponse(t), [PredictionResponse(t) EXCEPT !.risk_zones_geojson = NULL]}
BuildingLists(t) == {<<>>, <<[osm_id |-> t]>>}

(***************************************************************************)
(* useFloodData                                                            *)
(***************************************************************************)

InitialState == [result |-> NULL, buildings |-> <<>>, isLoading |-> FALSE, error |-> NULL]

\* err instanceof Error ? err.message : 'Nieznany blad'
errorMessage(err) == IF err.isError THEN err.message ELSE "Nieznany blad"

\* setState(prev => ({ ...prev, isLoading: true, error: null }))
setLoading(prev) == [prev EXCEPT !.isLoading = TRUE, !.error = NULL]

\* setFailed with the error message dropped
setFailed_noMessage(prev, err) == [prev EXCEPT !.isLoading = FALSE]

\* a catch block that also drops the previous outcome
setFailed_clearsResult(prev, err) ==
    [result |-> NULL, buildings |-> <<>>, isLoading |-> FALSE,
     error |-> Some(errorMessage(err))]

\* the catch block of runAnalysis and of loadDemoData
setFailed(prev, err) == [prev EXCEPT !.isLoading = FALSE, !.error = Some(errorMessage(err))]

\* the success setState of runAnalysis and of loadDemoData
setResult(result, buildings) ==
    [result |-> Some(result), buildings |-> buildings, isLoading |-> FALSE, error |-> NULL]

\* clearResults
clearResults == InitialState

(***************************************************************************)
(* Invocations                                                             *)
(***************************************************************************)

\* One record per invocation of an async handler: `stage` is where the
\* handler stands ("primary": awaiting its first request, "buildings":
\* awaiting getBuildings, "done": returned normally, "failed": its catch
\* block ran), `sent` the requests it has issued, `outcome` how each of them
\* ended on the wire ("ok" or "error"), `cleared` whether clearResults ran
\* while it was pending, `caller` who awaits it: "App" for the handlers of
\* App, "client" for a call of a function the hook returns, `before` the
\* result and buildings of the hook at the moment of the call, `rethrown`
\* whether the catch block of the hook's function threw the error on to the
\* caller (`throw err`).
Pending(t) == tasks[t].stage \in {"primary", "buildings"}
IsAnalysisKind(k) == k \in {"runAnalysis", "loadDemoData"}
IsPredictionKind(k) == k \in {"handlePredict", "handleLoadPredictionDemo"}

NewTask(kind, request, sent) ==
    [kind |-> kind, stage |-> "primary", request |-> request,
     sent |-> <<sent>>, outcome |-> <<>>, cleared |-> FALSE, caller |-> "App",
     before |-> [result |-> state.result, buildings |-> state.buildings],
     rethrown |-> FALSE]

\* The same, for a call made on the hook itself.
NewClientTask(kind, request, sent) ==
    [NewTask(kind, request, sent) EXCEPT !.caller = "client"]

\* clearResults ran: the analyses that are pending are marked
Cleared ==
    [u \in DOMAIN tasks |->
        IF Pending(u) /\ IsAnalysisKind(tasks[u].kind)
        THEN [tasks[u] EXCEPT !.cleared = TRUE]
        ELSE tasks[u]]

\* The pending request of invocation t ended with `res`; the handler moves to `stage`.
Settle(t, stage, res) ==
    [tasks EXCEPT ![t].stage = stage, ![t].outcome = Append(@, res)]

\* The pending request of invocation t was rejected; the catch block of the
\* hook's function ran and ended with `throw err`.
SettleRethrown(t) ==
    [tasks EXCEPT ![t].stage = "failed", ![t].outcome = Append(@, "error"),
                  ![t].rethrown = TRUE]

\* As Settle, and records that clearResults ran while an analysis was pending.
SettleAndClear(t, stage, res) ==
    [u \in DOMAIN tasks |->
        IF u = t THEN [tasks[u] EXCEPT !.stage = stage, !.outcome = Append(@, res)]
        ELSE IF Pending(u) /\ IsAnalysisKind(tasks[u].kind)
             THEN [tasks[u] EXCEPT !.cleared = TRUE]
             ELSE tasks[u]]

Init ==
    /\ state = InitialState
    /\ prediction = NULL
    /\ isPredicting = FALSE
    /\ predictionError = NULL
    /\ selectedBbox = NULL
    /\ mode = "prediction"
    /\ predictionHours = DefaultPredictionHours
    /\ dateBefore = DefaultDateBefore
    /\ dateAfter = DefaultDateAfter
    /\ polarization = DefaultPolarization
    /\ tasks = <<>>
    /\ alerts = 0
    /\ isConnected = FALSE
    /\ monitor = "inactive"
    /\ interval = FALSE
    /\ probes = <<>>
    /\ ticks = 0
    /\ view = NULL
    /\ report = NULL
    /\ download = NULL
    /\ utcOffset = UTC
    /\ clock = 0
    /\ drawing = FALSE
    /\ startPoint = NULL
    /\ bounds = NULL
    /\ pointer = NULL
    /\ emissions = 0

(***************************************************************************)
(* App.handleAnalyze -> useFloodData.runAnalysis                           *)
(***************************************************************************)

\* handleAnalyze(request) up to `await analyzeFlood(request)`
handleAnalyze(request) ==
    /\ state' = setLoading(state)
    /\ tasks' = Append(tasks, NewTask("runAnalysis", request,
                                      [url |-> "/api/analyze", body |-> request]))
    /\ UNCHANGED <<prediction, isPredicting, predictionError, selectedBbox,
                   mode, predictionHours, alerts>>
    /\ UNCHANGED outsideOrchestrator

\* analyzeFloodOk asking for the buildings of another region
analyzeFloodOk_otherBbox(t) ==
    /\ tasks[t].kind = "runAnalysis" /\ tasks[t].stage = "primary"
    /\ tasks' = [tasks EXCEPT ![t].stage = "buildings",
                              ![t].outcome = Append(@, "ok"),
                              ![t].sent = Append(@, [url |-> "/api/buildings",
                                                     body |-> [bbox |-> DemoBbox]])]
    /\ UNCHANGED <<state, prediction, isPredicting, predictionError, selectedBbox,
                   mode, predictionHours, alerts>>
    /\ UNCHANGED outsideOrchestrator

\* analyzeFlood resolves; runAnalysis goes on to `await getBuildings(request.bbox)`
analyzeFloodOk(t) ==
    /\ tasks[t].kind = "runAnalysis" /\ tasks[t].stage = "primary"
    /\ tasks' = [tasks EXCEPT ![t].stage = "buildings",
                              ![t].outcome = Append(@, "ok"),
                              ![t].sent = Append(@, [url |-> "/api/buildings",
                                                     body |-> [bbox |-> tasks[t].request.bbox]])]
    /\ UNCHANGED <<state, prediction, isPredicting, predictionError, selectedBbox,
                   mode, predictionHours, alerts>>
    /\ UNCHANGED outsideOrchestrator

\* a catch of runAnalysis that issues the rejected request again
runAnalysisCatch_retry(t, err) ==
    /\ tasks[t].kind = "runAnalysis" /\ Pending(t)
    /\ tasks' = [tasks EXCEPT ![t].outcome = Append(@, "error"),
                              ![t].sent = Append(@, tasks[t].sent[Len(tasks[t].sent)])]
    /\ UNCHANGED <<state, prediction, isPredicting, predictionError, selectedBbox,
                   mode, predictionHours, alerts>>
    /\ UNCHANGED outsideOrchestrator

\* analyzeFlood or getBuildings rejects: the catch of runAnalysis rethrows
\* and handleAnalyze logs the error
runAnalysisCatch(t, err) ==
    /\ tasks[t].kind = "runAnalysis" /\ Pending(t)
    /\ state' = setFailed(state, err)
    /\ tasks' = SettleRethrown(t)
    /\ UNCHANGED <<prediction, isPredicting, predictionError, selectedBbox,
                   mode, predictionHours, alerts>>
    /\ UNCHANGED outsideOrchestrator

\* getBuildingsOk with handleAnalyze's setPrediction(null) left out
getBuildingsOk_keepsPrediction(t, buildings) ==
    /\ tasks[t].kind = "runAnalysis" /\ tasks[t].stage = "buildings"
    /\ state' = setResult(AnalysisResponse(t), buildings)
    /\ tasks' = Settle(t, "done", "ok")
    /\ UNCHANGED <<prediction, isPredicting, predictionError, selectedBbox,
                   mode, predictionHours, alerts>>
    /\ UNCHANGED outsideOrchestrator

\* getBuildings resolves: runAnalysis publishes and returns, then
\* handleAnalyze, where it is the caller, clears the prediction
getBuildingsResolves(t, result, buildings) ==
    /\ tasks[t].kind = "runAnalysis" /\ tasks[t].stage = "buildings"
    /\ state' = setResult(result, buildings)
    /\ prediction' = IF tasks[t].caller = "App" THEN NULL ELSE prediction
    /\ tasks' = Settle(t, "done", "ok")
    /\ UNCHANGED <<isPredicting, predictionError, selectedBbox,
                   mode, predictionHours, alerts>>
    /\ UNCHANGED outsideOrchestrator

\* the same, for the answer of analyzeFlood that carries its overlay
getBuildingsOk(t, buildings) == getBuildingsResolves(t, AnalysisResponse(t), buildings)

(***************************************************************************)
(* The functions useFloodData returns, called by a client of the hook      *)
(* itself: runAnalysis and loadDemoData without the handlers of App around *)
(* them, clearResults, and fetchBuildings, which App does not call.        *)
(***************************************************************************)

\* runAnalysis(request) up to `await analyzeFlood(request)`; its
\* continuations are those of the runAnalysis that handleAnalyze awaits
runAnalysis(request) ==
    /\ state' = setLoading(state)
    /\ tasks' = Append(tasks, NewClientTask("runAnalysis", request,
                                            [url |-> "/api/analyze", body |-> request]))
    /\ UNCHANGED <<prediction, isPredicting, predictionError, selectedBbox,
                   mode, predictionHours, alerts>>
    /\ UNCHANGED outsideOrchestrator

\* loadDemoData() up to `await getDemoData()`
loadDemoData ==
    /\ state' = setLoading(state)
    /\ tasks' = Append(tasks, NewClientTask("loadDemoData", NULL, [url |-> "/api/demo"]))
    /\ UNCHANGED <<prediction, isPredicting, predictionError, selectedBbox,
                   mode, predictionHours, alerts>>
    /\ UNCHANGED outsideOrchestrator

\* clearResults(): the state is reset; no request is cancelled
clear ==
    /\ state' = clearResults
    /\ tasks' = Cleared
    /\ UNCHANGED <<prediction, isPredicting, predictionError, selectedBbox,
                   mode, predictionHours, alerts>>
    /\ UNCHANGED outsideOrchestrator


\* fetchBuildings(bbox) up to `await getBuildings(bbox)`
fetchBuildings(bbox) ==
    /\ tasks' = Append(tasks, NewClientTask("fetchBuildings", [bbox |-> bbox],
                                            [url |-> "/api/buildings",
                                             body |-> [bbox |-> bbox]]))
    /\ UNCHANGED <<state, prediction, isPredicting, predictionError, selectedBbox,
                   mode, predictionHours, alerts>>
    /\ UNCHANGED outsideOrchestrator

\* getBuildings resolves: setState(prev => ({ ...prev, buildings })), and
\* the list is returned
fetchBuildingsOk(t, buildings) ==
    /\ tasks[t].kind = "fetchBuildings" /\ tasks[t].stage = "primary"
    /\ state' = [state EXCEPT !.buildings = buildings]
    /\ tasks' = Settle(t, "done", "ok")
    /\ UNCHANGED <<prediction, isPredicting, predictionError, selectedBbox,
                   mode, predictionHours, alerts>>
    /\ UNCHANGED outsideOrchestrator

\* getBuildings rejects: the catch logs the error and returns [], the
\* state is left as it is and nothing is thrown
fetchBuildingsCatch(t, err) ==
    /\ tasks[t].kind = "fetchBuildings" /\ tasks[t].stage = "primary"
    /\ tasks' = Settle(t, "failed", "error")
    /\ UNCHANGED <<state, prediction, isPredicting, predictionError, selectedBbox,
                   mode, predictionHours, alerts>>
    /\ UNCHANGED outsideOrchestrator

(***************************************************************************)
(* App.handleLoadDemo -> useFloodData.loadDemoData                         *)
(***************************************************************************)

\* handleLoadDemo() up to `await getDemoData()`
handleLoadDemo ==
    /\ state' = setLoading(state)
    /\ tasks' = Append(tasks, NewTask("loadDemoData", NULL, [url |-> "/api/demo"]))
    /\ UNCHANGED <<prediction, isPredicting, predictionError, selectedBbox,
                   mode, predictionHours, alerts>>
    /\ UNCHANGED outsideOrchestrator

\* getDemoData resolves: loadDemoData publishes and returns, then
\* handleLoadDemo, where it is the caller, clears the prediction and selects
\* the demo box
getDemoDataResolves(t, result) ==
    /\ tasks[t].kind = "loadDemoData" /\ tasks[t].stage = "primary"
    /\ state' = setResult(result, <<>>)
    /\ prediction' = IF tasks[t].caller = "App" THEN NULL ELSE prediction
    /\ selectedBbox' = IF tasks[t].caller = "App" THEN Some(DemoBbox) ELSE selectedBbox
    /\ tasks' = Settle(t, "done", "ok")
    /\ UNCHANGED <<isPredicting, predictionError, mode, predictionHours, alerts>>
    /\ UNCHANGED outsideOrchestrator

\* the same, for the demo answer that carries its overlay
getDemoDataOk(t) == getDemoDataResolves(t, AnalysisResponse(t))

\* getDemoData rejects: the catch of loadDemoData rethrows and
\* handleLoadDemo logs the error
loadDemoDataCatch(t, err) ==
    /\ tasks[t].kind = "loadDemoData" /\ tasks[t].stage = "primary"
    /\ state' = setFailed(state, err)
    /\ tasks' = SettleRethrown(t)
    /\ UNCHANGED <<prediction, isPredicting, predictionError, selectedBbox,
                   mode, predictionHours, alerts>>
    /\ UNCHANGED outsideOrchestrator

(***************************************************************************)
(* App.handlePredict                                                       *)
(***************************************************************************)

\* err.message || "Prediction failed"
predictionErrorMessage(err) ==
    IF err.message # "" THEN err.message ELSE "Prediction failed"

\* handlePredict(request) up to `await predictFlood(request)`
handlePredict(request) ==
    /\ isPredicting' = TRUE
    /\ predictionError' = NULL
    /\ tasks' = Append(tasks, NewTask("handlePredict", request,
                                      [url |-> "/api/predict", body |-> request]))
    /\ UNCHANGED <<state, prediction, selectedBbox, mode, predictionHours, alerts>>
    /\ UNCHANGED outsideOrchestrator

\* predictFloodResolves without its clearResults()
predictFloodResolves_keepsResult(t, result) ==
    /\ tasks[t].kind = "handlePredict" /\ tasks[t].stage = "primary"
    /\ prediction' = Some(result)
    /\ isPredicting' = FALSE
    /\ tasks' = Settle(t, "done", "ok")
    /\ UNCHANGED <<state, predictionError, selectedBbox, mode, predictionHours, alerts>>
    /\ UNCHANGED outsideOrchestrator

\* predictFlood resolves: setPrediction, clearResults, finally
predictFloodResolves(t, result) ==
    /\ tasks[t].kind = "handlePredict" /\ tasks[t].stage = "primary"
    /\ prediction' = Some(result)
    /\ state' = clearResults
    /\ isPredicting' = FALSE
    /\ tasks' = SettleAndClear(t, "done", "ok")
    /\ UNCHANGED <<predictionError, selectedBbox, mode, predictionHours, alerts>>
    /\ UNCHANGED outsideOrchestrator

\* the same, for the answer that carries its risk zones
predictFloodOk(t) == predictFloodResolves(t, PredictionResponse(t))

\* predictFlood rejects: catch, finally
handlePredictCatch(t, err) ==
    /\ tasks[t].kind = "handlePredict" /\ tasks[t].stage = "primary"
    /\ predictionError' = Some(predictionErrorMessage(err))
    /\ isPredicting' = FALSE
    /\ tasks' = Settle(t, "failed", "error")
    /\ UNCHANGED <<state, prediction, selectedBbox, mode, predictionHours, alerts>>
    /\ UNCHANGED outsideOrchestrator

(***************************************************************************)
(* App.handleLoadPredictionDemo                                            *)
(***************************************************************************)

\* handleLoadPredictionDemo() up to `await getPredictionDemo()`
handleLoadPredictionDemo ==
    /\ isPredicting' = TRUE
    /\ tasks' = Append(tasks, NewTask("handleLoadPredictionDemo", NULL,
                                      [url |-> "/api/predict/demo"]))
    /\ UNCHANGED <<state, prediction, predictionError, selectedBbox,
                   mode, predictionHours, alerts>>
    /\ UNCHANGED outsideOrchestrator

\* getPredictionDemo resolves: setPrediction, clearResults, setSelectedBbox, finally
getPredictionDemoResolves(t, result) ==
    /\ tasks[t].kind = "handleLoadPredictionDemo" /\ tasks[t].stage = "primary"
    /\ prediction' = Some(result)
    /\ state' = clearResults
    /\ selectedBbox' = Some(DemoBbox)
    /\ isPredicting' = FALSE
    /\ tasks' = SettleAndClear(t, "done", "ok")
    /\ UNCHANGED <<predictionError, mode, predictionHours, alerts>>
    /\ UNCHANGED outsideOrchestrator

\* the same, for the demo answer that carries its risk zones
getPredictionDemoOk(t) == getPredictionDemoResolves(t, PredictionResponse(t))

\* handleLoadPredictionDemoCatch without the `finally { setIsPredicting(false) }`
handleLoadPredictionDemoCatch_noFinally(t, err) ==
    /\ tasks[t].kind = "handleLoadPredictionDemo" /\ tasks[t].stage = "primary"
    /\ tasks' = Settle(t, "failed", "error")
    /\ UNCHANGED <<state, prediction, isPredicting, predictionError, selectedBbox,
                   mode, predictionHours, alerts>>
    /\ UNCHANGED outsideOrchestrator

\* getPredictionDemo rejects: the catch only logs; finally
handleLoadPredictionDemoCatch(t, err) ==
    /\ tasks[t].kind = "handleLoadPredictionDemo" /\ tasks[t].stage = "primary"
    /\ isPredicting' = FALSE
    /\ tasks' = Settle(t, "failed", "error")
    /\ UNCHANGED <<state, prediction, predictionError, selectedBbox,
                   mode, predictionHours, alerts>>
    /\ UNCHANGED outsideOrchestrator

(***************************************************************************)
(* Sidebar and the map selection                                           *)
(***************************************************************************)

\* RectangleSelector calls onSelect = setSelectedBbox with the committed box
onSelect(bbox) ==
    /\ selectedBbox' = Some(bbox)
    /\ UNCHANGED <<state, prediction, isPredicting, predictionError,
                   mode, predictionHours, tasks, alerts>>
    /\ UNCHANGED outsideOrchestrator

\* the mode switch buttons: onClick={() => setMode(m)}
setMode(m) ==
    /\ mode' = m
    /\ UNCHANGED <<state, prediction, isPredicting, predictionError, selectedBbox,
                   predictionHours, tasks, alerts>>
    /\ UNCHANGED outsideOrchestrator

\* the horizon slider, which the form renders in prediction mode only:
\* onChange={(e) => setPredictionHours(parseInt(e.target.value))}
setPredictionHours(v) ==
    /\ mode = "prediction"
    /\ predictionHours' = v
    /\ UNCHANGED <<state, prediction, isPredicting, predictionError, selectedBbox,
                   mode, tasks, alerts>>
    /\ UNCHANGED outsideOrchestrator

\* the first date input, which the form renders in analysis mode only:
\* onChange={(e) => setDateBefore(e.target.value)}
setDateBefore(v) ==
    /\ mode # "prediction"
    /\ dateBefore' = v
    /\ UNCHANGED <<state, prediction, isPredicting, predictionError, selectedBbox,
                   mode, predictionHours, dateAfter, polarization, tasks, alerts>>
    /\ UNCHANGED <<monitorVars, dashboardVars, selectorVars>>

\* the second date input, in analysis mode only:
\* onChange={(e) => setDateAfter(e.target.value)}
setDateAfter(v) ==
    /\ mode # "prediction"
    /\ dateAfter' = v
    /\ UNCHANGED <<state, prediction, isPredicting, predictionError, selectedBbox,
                   mode, predictionHours, dateBefore, polarization, tasks, alerts>>
    /\ UNCHANGED <<monitorVars, dashboardVars, selectorVars>>

\* the polarization buttons, in analysis mode only:
\* onClick={() => setPolarization(pol)}
setPolarization(pol) ==
    /\ mode # "prediction"
    /\ polarization' = pol
    /\ UNCHANGED <<state, prediction, isPredicting, predictionError, selectedBbox,
                   mode, predictionHours, dateBefore, dateAfter, tasks, alerts>>
    /\ UNCHANGED <<monitorVars, dashboardVars, selectorVars>>

\* alert("Prosze zaznaczyc obszar na mapie ..."); return
alertNoBbox ==
    /\ alerts < MaxAlerts
    /\ alerts' = alerts + 1
    /\ UNCHANGED <<state, prediction, isPredicting, predictionError, selectedBbox,
                   mode, predictionHours, tasks>>
    /\ UNCHANGED outsideOrchestrator

\* handleSubmit without the `if (!selectedBbox)` guard
handleSubmit_noGuard ==
    LET bbox == IF selectedBbox = NULL THEN NULL ELSE Head(selectedBbox) IN
    IF mode = "prediction"
    THEN handlePredict([bbox |-> bbox, prediction_hours |-> predictionHours])
    ELSE handleAnalyze([bbox |-> bbox, date_before |-> dateBefore,
                        date_after |-> dateAfter, polarization |-> polarization])

\* Sidebar.handleSubmit
handleSubmit ==
    IF selectedBbox = NULL
    THEN alertNoBbox
    ELSE IF mode = "prediction"
         THEN handlePredict([bbox |-> Head(selectedBbox),
                             prediction_hours |-> predictionHours])
         ELSE handleAnalyze([bbox |-> Head(selectedBbox), date_before |-> dateBefore,
                             date_after |-> dateAfter, polarization |-> polarization])

\* the demo button: onClick={mode === "prediction" ? onLoadPredictionDemo : onLoadDemo}
demoClick ==
    IF mode = "prediction" THEN handleLoadPredictionDemo ELSE handleLoadDemo

(***************************************************************************)
(* The connection monitor: the first useEffect of App                      *)
(***************************************************************************)

\* setInterval(checkConnection, 30000)
ProbeIntervalMs == 30000
\* axios.create({ timeout: 60000 }): a checkHealth call is settled within it
TimeoutMs == 60000

\* checkConnection() up to `await checkHealth()`
checkConnection == Append(probes, [issued |-> ticks', status |-> "pending"])

\* the effect runs after the first render: checkConnection(), setInterval
mountEffect ==
    /\ monitor = "inactive"
    /\ monitor' = "active"
    /\ ticks' = 0
    /\ probes' = checkConnection
    /\ interval' = TRUE
    /\ UNCHANGED <<isConnected, state, prediction, isPredicting, predictionError,
                   selectedBbox, mode, predictionHours, tasks, alerts>>
    /\ UNCHANGED <<formVars, dashboardVars, selectorVars>>

\* A checkHealth call issued at period k is settled, by its response or by
\* the axios timeout, no later than TimeoutMs after it was issued.
ProbesInTime(now) ==
    \A p \in DOMAIN probes :
        probes[p].status = "pending" => now * ProbeIntervalMs <= probes[p].issued * ProbeIntervalMs + TimeoutMs

\* ProbeIntervalMs elapse: the timer, if registered, calls checkConnection
elapse ==
    /\ monitor # "inactive"
    /\ ticks < MaxTicks
    /\ ProbesInTime(ticks + 1)
    /\ ticks' = ticks + 1
    /\ probes' = IF interval THEN checkConnection ELSE probes
    /\ UNCHANGED <<isConnected, monitor, interval, state, prediction, isPredicting,
                   predictionError, selectedBbox, mode, predictionHours, tasks, alerts>>
    /\ UNCHANGED <<formVars, dashboardVars, selectorVars>>

\* checkHealth resolves: setIsConnected(true).  The cleanup of the effect
\* does not abort a call in flight, so this also runs for a probe that
\* settles after the cleanup.
checkHealthOk(p) ==
    /\ probes[p].status = "pending"
    /\ probes' = [probes EXCEPT ![p].status = "ok"]
    /\ isConnected' = TRUE
    /\ UNCHANGED <<monitor, interval, ticks, state, prediction, isPredicting,
                   predictionError, selectedBbox, mode, predictionHours, tasks, alerts>>
    /\ UNCHANGED <<formVars, dashboardVars, selectorVars>>

\* checkHealthCatch without the setIsConnected(false)
checkHealthCatch_keepsFlag(p) ==
    /\ probes[p].status = "pending"
    /\ probes' = [probes EXCEPT ![p].status = "failed"]
    /\ UNCHANGED <<isConnected, monitor, interval, ticks, state, prediction, isPredicting,
                   predictionError, selectedBbox, mode, predictionHours, tasks, alerts>>
    /\ UNCHANGED <<formVars, dashboardVars, selectorVars>>

\* a checkHealthCatch that also reports the failure as a prediction error
checkHealthCatch_surfacesError(p) ==
    /\ probes[p].status = "pending"
    /\ probes' = [probes EXCEPT ![p].status = "failed"]
    /\ isConnected' = FALSE
    /\ predictionError' = Some("Network Error")
    /\ UNCHANGED <<monitor, interval, ticks, state, prediction, isPredicting,
                   selectedBbox, mode, predictionHours, tasks, alerts>>
    /\ UNCHANGED <<formVars, dashboardVars, selectorVars>>

\* checkHealth rejects (network error, non-2xx status, timeout): setIsConnected(false)
checkHealthCatch(p) ==
    /\ probes[p].status = "pending"
    /\ probes' = [probes EXCEPT ![p].status = "failed"]
    /\ isConnected' = FALSE
    /\ UNCHANGED <<monitor, interval, ticks, state, prediction, isPredicting,
                   predictionError, selectedBbox, mode, predictionHours, tasks, alerts>>
    /\ UNCHANGED <<formVars, dashboardVars, selectorVars>>

\* the cleanup of the effect without its clearInterval
cleanupEffect_keepsInterval ==
    /\ monitor = "active"
    /\ monitor' = "torn"
    /\ UNCHANGED <<isConnected, interval, probes, ticks, state, prediction, isPredicting,
                   predictionError, selectedBbox, mode, predictionHours, tasks, alerts>>
    /\ UNCHANGED <<formVars, dashboardVars, selectorVars>>

\* the cleanup of the effect, on unmount: clearInterval(interval)
cleanupEffect ==
    /\ monitor = "active"
    /\ monitor' = "torn"
    /\ interval' = FALSE
    /\ UNCHANGED <<isConnected, probes, ticks, state, prediction, isPredicting,
                   predictionError, selectedBbox, mode, predictionHours, tasks, alerts>>
    /\ UNCHANGED <<formVars, dashboardVars, selectorVars>>

(***************************************************************************)
(* RectangleSelector (App.tsx): the shift-drag selection on the map        *)
(***************************************************************************)

\* The points of the map the mouse events report (L.LatLng), in hundredths
\* of a degree: the corners of the box of UserBboxes.
Points == {[lat |-> la, lng |-> lo] : la \in {5100, 5110}, lo \in {1690, 1705}}

Min(x, y) == IF x <= y THEN x ELSE y
Max(x, y) == IF x >= y THEN x ELSE y

\* L.latLngBounds taking its corners as given
latLngBounds_unordered(corner1, corner2) ==
    [southWest |-> corner1, northEast |-> corner2]

\* L.latLngBounds(corner1, corner2) of Leaflet: the bounds extended over
\* both corners
latLngBounds(corner1, corner2) ==
    [southWest |-> [lat |-> Min(corner1.lat, corner2.lat),
                    lng |-> Min(corner1.lng, corner2.lng)],
     northEast |-> [lat |-> Max(corner1.lat, corner2.lat),
                    lng |-> Max(corner1.lng, corner2.lng)]]

\* the argument of onSelect: getWest(), getSouth(), getEast(), getNorth()
selectedBounds(finalBounds) ==
    [min_lon |-> finalBounds.southWest.lng, min_lat |-> finalBounds.southWest.lat,
     max_lon |-> finalBounds.northEast.lng, max_lat |-> finalBounds.northEast.lat]

\* createBboxFromBounds(southWest, northEast) of services/api.ts
createBboxFromBounds(southWest, northEast) ==
    [min_lon |-> southWest.lng, min_lat |-> southWest.lat,
     max_lon |-> northEast.lng, max_lat |-> northEast.lat]

\* mousedown(e)
mousedown(latlng, shiftKey) ==
    /\ pointer' = Some([type |-> "mousedown", latlng |-> latlng, shiftKey |-> shiftKey])
    /\ IF shiftKey
       THEN /\ drawing' = TRUE
            /\ startPoint' = Some(latlng)
            /\ bounds' = NULL
       ELSE UNCHANGED <<drawing, startPoint, bounds>>
    /\ UNCHANGED <<emissions, appVars, monitorVars, dashboardVars>>

\* a mousemove that hands the provisional rectangle to onSelect
mousemove_emits(latlng) ==
    /\ pointer' = Some([type |-> "mousemove", latlng |-> latlng])
    /\ IF drawing /\ startPoint # NULL
       THEN /\ bounds' = Some(latLngBounds(Head(startPoint), latlng))
            /\ selectedBbox' = Some(selectedBounds(latLngBounds(Head(startPoint), latlng)))
            /\ emissions' = emissions + 1
       ELSE UNCHANGED <<bounds, selectedBbox, emissions>>
    /\ UNCHANGED <<drawing, startPoint, state, prediction, isPredicting, predictionError,
                   mode, predictionHours, formVars, tasks, alerts,
                   monitorVars, dashboardVars>>

\* mousemove(e)
mousemove(latlng) ==
    /\ pointer' = Some([type |-> "mousemove", latlng |-> latlng])
    /\ IF drawing /\ startPoint # NULL
       THEN bounds' = Some(latLngBounds(Head(startPoint), latlng))
       ELSE UNCHANGED bounds
    /\ UNCHANGED <<drawing, startPoint, emissions, appVars, monitorVars, dashboardVars>>

\* mouseup(e): setDrawing(false), setStartPoint(null), setBounds, onSelect
mouseup(latlng) ==
    /\ pointer' = Some([type |-> "mouseup", latlng |-> latlng])
    /\ IF drawing /\ startPoint # NULL
       THEN LET finalBounds == latLngBounds(Head(startPoint), latlng) IN
            /\ drawing' = FALSE
            /\ startPoint' = NULL
            /\ bounds' = Some(finalBounds)
            /\ selectedBbox' = Some(selectedBounds(finalBounds))
            /\ emissions' = emissions + 1
       ELSE UNCHANGED <<drawing, startPoint, bounds, selectedBbox, emissions>>
    /\ UNCHANGED <<state, prediction, isPredicting, predictionError, mode,
                   predictionHours, formVars, tasks, alerts,
                   monitorVars, dashboardVars>>

(***************************************************************************)
(* The arrival of the responses, in any order.                             *)
(***************************************************************************)

Responses ==
    \/ \E t \in DOMAIN tasks : analyzeFloodOk(t)
    \/ \E t \in DOMAIN tasks : \E b \in BuildingLists(t) : getBuildingsOk(t, b)
    \/ \E t \in DOMAIN tasks : \E err \in AxiosErrors : runAnalysisCatch(t, err)
    \/ \E t \in DOMAIN tasks : getDemoDataOk(t)
    \/ \E t \in DOMAIN tasks : \E err \in AxiosErrors : loadDemoDataCatch(t, err)
    \/ \E t \in DOMAIN tasks : predictFloodOk(t)
    \/ \E t \in DOMAIN tasks : \E err \in AxiosErrors : handlePredictCatch(t, err)
    \/ \E t \in DOMAIN tasks : getPredictionDemoOk(t)
    \/ \E t \in DOMAIN tasks : \E err \in AxiosErrors : handleLoadPredictionDemoCatch(t, err)

(***************************************************************************)
(* Spec: the handlers of App, invoked by any caller with any request, and  *)
(* the responses.                                                          *)
(***************************************************************************)

Next ==
    \/ Len(tasks) < MaxOps /\ \E r \in AnalysisRequests : handleAnalyze(r)
    \/ Len(tasks) < MaxOps /\ \E r \in PredictionRequests : handlePredict(r)
    \/ Len(tasks) < MaxOps /\ handleLoadDemo
    \/ Len(tasks) < MaxOps /\ handleLoadPredictionDemo
    \/ Responses

Spec == Init /\ [][Next]_vars

(***************************************************************************)
(* HookSpec: the handlers of App next to a client of the hook that calls   *)
(* the functions it returns.                                               *)
(***************************************************************************)

HookNext ==
    \/ Len(tasks) < MaxHookOps /\ \E r \in AnalysisRequests : handleAnalyze(r)
    \/ Len(tasks) < MaxHookOps /\ \E r \in PredictionRequests : handlePredict(r)
    \/ Len(tasks) < MaxHookOps /\ handleLoadDemo
    \/ Len(tasks) < MaxHookOps /\ handleLoadPredictionDemo
    \/ Len(tasks) < MaxHookOps /\ \E r \in AnalysisRequests : runAnalysis(r)
    \/ Len(tasks) < MaxHookOps /\ loadDemoData
    \/ clear
    \/ Len(tasks) < MaxHookOps /\ \E b \in UserBboxes : fetchBuildings(b)
    \/ \E t \in DOMAIN tasks : \E b \in BuildingLists(t) : fetchBuildingsOk(t, b)
    \/ \E t \in DOMAIN tasks : \E err \in AxiosErrors : fetchBuildingsCatch(t, err)
    \/ Responses

HookSpec == Init /\ [][HookNext]_vars

(***************************************************************************)
(* SidebarSpec: the same handlers driven by the Sidebar's events.          *)
(***************************************************************************)

\* how many of the three analysis fields differ from their defaults
Edited(before, after, pol) ==
    (IF before = DefaultDateBefore THEN 0 ELSE 1)
    + (IF after = DefaultDateAfter THEN 0 ELSE 1)
    + (IF pol = DefaultPolarization THEN 0 ELSE 1)

SidebarNext ==
    \/ \E b \in UserBboxes : onSelect(b)
    \/ \E m \in Modes : setMode(m)
    \/ \E v \in SliderStops : setPredictionHours(v)
    \/ \E v \in DateBeforeInputs :
          Edited(v, dateAfter, polarization) <= MaxFormEdits /\ setDateBefore(v)
    \/ \E v \in DateAfterInputs :
          Edited(dateBefore, v, polarization) <= MaxFormEdits /\ setDateAfter(v)
    \/ \E pol \in Polarizations :
          Edited(dateBefore, dateAfter, pol) <= MaxFormEdits /\ setPolarization(pol)
    \/ (selectedBbox = NULL \/ Len(tasks) < MaxSidebarOps) /\ handleSubmit
    \/ Len(tasks) < MaxSidebarOps /\ demoClick
    \/ Responses

SidebarSpec == Init /\ [][SidebarNext]_vars

(***************************************************************************)
(* GatedSpec: the Sidebar with its buttons, which are disabled while the   *)
(* busy flag App passes down is raised.                                    *)
(***************************************************************************)

\* the busy flag App passes down: isLoading={isLoading || isPredicting} to
\* the Sidebar, isAnalyzing={isLoading || isPredicting} to the Header
isAnalyzing == state.isLoading \/ isPredicting

\* a demo button that is never disabled
demoDisabled_never == FALSE

\* the demo button: disabled={isLoading}
demoDisabled == isAnalyzing

\* the submit button: disabled={isLoading || !selectedBbox}
submitDisabled == isAnalyzing \/ selectedBbox = NULL

GatedNext ==
    \/ \E b \in UserBboxes : onSelect(b)
    \/ \E m \in Modes : setMode(m)
    \/ \E v \in SliderStops : setPredictionHours(v)
    \/ \E v \in DateBeforeInputs :
          Edited(v, dateAfter, polarization) <= MaxFormEdits /\ setDateBefore(v)
    \/ \E v \in DateAfterInputs :
          Edited(dateBefore, v, polarization) <= MaxFormEdits /\ setDateAfter(v)
    \/ \E pol \in Polarizations :
          Edited(dateBefore, dateAfter, pol) <= MaxFormEdits /\ setPolarization(pol)
    \/ ~submitDisabled /\ Len(tasks) < MaxGatedOps /\ handleSubmit
    \/ ~demoDisabled /\ Len(tasks) < MaxGatedOps /\ demoClick
    \/ Responses

GatedSpec == Init /\ [][GatedNext]_vars

(***************************************************************************)
(* OverlaySpec: the handlers of App with answers that carry an overlay or  *)
(* none, and the overlay App hands to the map.                             *)
(***************************************************************************)

\* const displayGeoJSON = prediction?.risk_zones_geojson || result?.flood_geojson
displayGeoJSON ==
    LET risk_zones == IF prediction = NULL THEN NULL
                      ELSE Head(prediction).risk_zones_geojson
        flood == IF state.result = NULL THEN NULL
                 ELSE Head(state.result).flood_geojson
    IN IF risk_zones # NULL THEN risk_zones ELSE flood

\* const isPredictionMode = !!prediction
isPredictionMode == prediction # NULL

OverlayNext ==
    \/ Len(tasks) < MaxOverlayOps /\ \E r \in AnalysisRequests : handleAnalyze(r)
    \/ Len(tasks) < MaxOverlayOps /\ \E r \in PredictionRequests : handlePredict(r)
    \/ Len(tasks) < MaxOverlayOps /\ handleLoadDemo
    \/ Len(tasks) < MaxOverlayOps /\ handleLoadPredictionDemo
    \/ \E t \in DOMAIN tasks : analyzeFloodOk(t)
    \/ \E t \in DOMAIN tasks : \E r \in AnalysisResponses(t) :
          getBuildingsResolves(t, r, <<>>)
    \/ \E t \in DOMAIN tasks : \E err \in AxiosErrors : runAnalysisCatch(t, err)
    \/ \E t \in DOMAIN tasks : \E r \in AnalysisResponses(t) : getDemoDataResolves(t, r)
    \/ \E t \in DOMAIN tasks : \E err \in AxiosErrors : loadDemoDataCatch(t, err)
    \/ \E t \in DOMAIN tasks : \E r \in PredictionResponses(t) : predictFloodResolves(t, r)
    \/ \E t \in DOMAIN tasks : \E err \in AxiosErrors : handlePredictCatch(t, err)
    \/ \E t \in DOMAIN tasks : \E r \in PredictionResponses(t) :
          getPredictionDemoResolves(t, r)
    \/ \E t \in DOMAIN tasks : \E err \in AxiosErrors :
          handleLoadPredictionDemoCatch(t, err)

OverlaySpec == Init /\ [][OverlayNext]_vars

(***************************************************************************)
(* SelectorSpec: the RectangleSelector under any sequence of mouse events, *)
(* and the Sidebar form submitting what it selected.                       *)
(***************************************************************************)

SelectorNext ==
    \/ \E p \in Points : \E shiftKey \in BOOLEAN : mousedown(p, shiftKey)
    \/ \E p \in Points : mousemove(p)
    \/ (~drawing \/ emissions < MaxEmissions) /\ \E p \in Points : mouseup(p)
    \/ \E m \in Modes : setMode(m)
    \/ (selectedBbox = NULL \/ Len(tasks) < MaxSelectorOps) /\ handleSubmit

SelectorSpec == Init /\ [][SelectorNext]_vars

(***************************************************************************)
(* LiveSpec: the handlers of App under the assumption that every request   *)
(* is answered: axios settles each request with a response or, after the   *)
(* 60000 ms timeout of the instance, with an error.                        *)
(***************************************************************************)

\* the settling of the request invocation t is awaiting
Response(t) ==
    /\ t \in DOMAIN tasks
    /\ \/ analyzeFloodOk(t)
       \/ \E b \in BuildingLists(t) : getBuildingsOk(t, b)
       \/ \E err \in AxiosErrors : runAnalysisCatch(t, err)
       \/ getDemoDataOk(t)
       \/ \E err \in AxiosErrors : loadDemoDataCatch(t, err)
       \/ predictFloodOk(t)
       \/ \E err \in AxiosErrors : handlePredictCatch(t, err)
       \/ getPredictionDemoOk(t)
       \/ \E err \in AxiosErrors : handleLoadPredictionDemoCatch(t, err)

LiveNext ==
    \/ Len(tasks) < MaxLiveOps /\ \E r \in AnalysisRequests : handleAnalyze(r)
    \/ Len(tasks) < MaxLiveOps /\ \E r \in PredictionRequests : handlePredict(r)
    \/ Len(tasks) < MaxLiveOps /\ handleLoadDemo
    \/ Len(tasks) < MaxLiveOps /\ handleLoadPredictionDemo
    \/ \E t \in 1..MaxLiveOps : Response(t)

LiveSpec ==
    Init /\ [][LiveNext]_vars /\ \A t \in 1..MaxLiveOps : WF_vars(Response(t))

(***************************************************************************)
(* MonitorSpec: the connection monitor next to the handlers of App.        *)
(***************************************************************************)

MonitorNext ==
    \/ mountEffect
    \/ elapse
    \/ \E p \in DOMAIN probes : checkHealthOk(p)
    \/ \E p \in DOMAIN probes : checkHealthCatch(p)
    \/ cleanupEffect
    \/ Len(tasks) < MaxMonitorOps /\ \E r \in AnalysisRequests : handleAnalyze(r)
    \/ Len(tasks) < MaxMonitorOps /\ \E r \in PredictionRequests : handlePredict(r)
    \/ Len(tasks) < MaxMonitorOps /\ handleLoadDemo
    \/ Len(tasks) < MaxMonitorOps /\ handleLoadPredictionDemo
    \/ Responses

MonitorSpec == Init /\ [][MonitorNext]_vars

(***************************************************************************)
(* The Dashboard component (frontend/src/components/Dashboard/Dashboard.tsx)*)
(*                                                                         *)
(* JavaScript numbers are IEEE-754 doubles.  The decimal literals 0.7,     *)
(* 0.2, 0.1, 0.3 and 0.5 are the doubles nearest to them, so a product     *)
(* n * 0.7 is the double nearest to n * fl(0.7), which for some n lies     *)
(* just below the integer 7n/10.  Counts and areas are integers here, and  *)
(* Math.floor and Math.ceil of such products are computed exactly.         *)
(***************************************************************************)

\* A decimal literal num/10 as a double: fl(num/10) = num/10 + sign * (kNum/kDen) * 2^-52.
Double07 == [num |-> 7, kNum |-> 1, kDen |-> 5, sign |-> -1]
Double02 == [num |-> 2, kNum |-> 1, kDen |-> 20, sign |-> 1]
Double01 == [num |-> 1, kNum |-> 1, kDen |-> 40, sign |-> 1]
Double03 == [num |-> 3, kNum |-> 1, kDen |-> 20, sign |-> -1]
Double05 == [num |-> 5, kNum |-> 0, kDen |-> 1, sign |-> 1]

Abs(x) == IF x < 0 THEN -x ELSE x
Sgn(x) == IF x > 0 THEN 1 ELSE IF x < 0 THEN -1 ELSE 0

RECURSIVE Log2Floor(_)
Log2Floor(m) == IF m < 2 THEN 0 ELSE 1 + Log2Floor(m \div 2)

\* For an integer n whose exact product m = n * num/10 is an integer: the
\* sign of (n * c as a double) - m.  The exact product n * fl(c) is off m by
\* |n| * (kNum/kDen) * 2^-52; it rounds back to m unless that exceeds half
\* the spacing of the doubles on its side of m, which is 2^(e-52) above
\* 2^e = the largest power of two <= |m|, and half of that just below 2^e.
Deviation(n, c) ==
    LET m == (n * c.num) \div 10 IN
    IF m = 0 THEN 0
    ELSE LET e == Log2Floor(Abs(m))
             dir == c.sign * Sgn(n)
             towardsZero == (dir < 0) = (m > 0)
             off == 2 * Abs(n) * c.kNum
             scaled == IF Abs(m) = 2 ^ e /\ towardsZero THEN 2 * off ELSE off
         IN IF scaled > c.kDen * 2 ^ e THEN dir ELSE 0

\* Math.round in the place of Math.floor
FloorMul_round(n, c) == (2 * n * c.num + 10) \div 20

\* Math.floor(n * c)
FloorMul(n, c) ==
    LET p == n * c.num IN
    IF p % 10 = 0 /\ Deviation(n, c) < 0 THEN p \div 10 - 1 ELSE p \div 10

\* Math.ceil(n * c)
CeilMul(n, c) ==
    LET p == n * c.num IN
    IF p % 10 # 0 \/ Deviation(n, c) > 0 THEN p \div 10 + 1 ELSE p \div 10

\* Math.ceil(x / 2): the quotient is exact
CeilHalf(x) == (x + 1) \div 2

DAMAGE_COSTS ==
    [residential |-> 150000, commercial |-> 500000, industrial |-> 1200000,
     infrastructure |-> 300000, agricultural |-> 50000]

\* The flooded areas (km2) of the results considered: integers x for which
\* the double (x * 0.3) * 50000 is exactly 15000 x.
FloodedAreas == {-4, -1, 0, 1, 2, 4, 5}
\* The flood percentages of the results considered.
FloodPercentages == {0, 15, 16, 30, 31, 100}
\* The building counts of the results considered.
BuildingCounts == -2 .. MaxBuildings

estimateFinancialLoss(buildingsAffected, floodedAreaKm2) ==
    LET residential == FloorMul(buildingsAffected, Double07)
        commercial == FloorMul(buildingsAffected, Double02)
        industrial == FloorMul(buildingsAffected, Double01)
        buildingDamage == residential * DAMAGE_COSTS.residential
                          + commercial * DAMAGE_COSTS.commercial
                          + industrial * DAMAGE_COSTS.industrial
        infrastructureDamage == CeilHalf(floodedAreaKm2) * DAMAGE_COSTS.infrastructure
        agriculturalLoss == (floodedAreaKm2 * Double03.num * DAMAGE_COSTS.agricultural) \div 10
    IN [totalLoss |-> buildingDamage + infrastructureDamage + agriculturalLoss,
        buildingDamage |-> buildingDamage,
        infrastructureDamage |-> infrastructureDamage,
        agriculturalLoss |-> agriculturalLoss]

\* the recommendation line of the report: greater-or-equal thresholds
recommendation_inclusive(flood_percentage) ==
    IF flood_percentage >= 30 THEN "WYSOKI POZIOM ZAGROZENIA"
    ELSE IF flood_percentage >= 15 THEN "SREDNI POZIOM ZAGROZENIA"
    ELSE "NISKI POZIOM ZAGROZENIA"

\* the recommendation line of the report
recommendation(flood_percentage) ==
    IF flood_percentage > 30 THEN "WYSOKI POZIOM ZAGROZENIA"
    ELSE IF flood_percentage > 15 THEN "SREDNI POZIOM ZAGROZENIA"
    ELSE "NISKI POZIOM ZAGROZENIA"

\* Instants are seconds since 1970-01-01T00:00:00Z; a day is counted from
\* the day of that instant (day 0), days before it being negative.
\* new Date().toLocaleDateString / toLocaleTimeString: the day and the
\* second of the day of the instant in the browser's time zone
SecondsPerDay == 24 * 60 * 60
toLocaleDateString(now) == (now + utcOffset) \div SecondsPerDay
toLocaleTimeString(now) == (now + utcOffset) % SecondsPerDay
\* new Date().toISOString().split('T')[0]: the day of the instant in UTC
toISOString(now) == now \div SecondsPerDay

\* generateReport(result): the generation line, the partition lines, the
\* recommendation and the priority actions of the text; the extent and the
\* loss lines restate `result` and estimateFinancialLoss.  The function
\* takes `result` only and reads the clock itself, twice: `dateRead` is what
\* the `new Date()` of the date returns and `timeRead` what the `new Date()`
\* of the time returns.
generateReport(result, dateRead, timeRead) ==
    IF result.stats = NULL THEN [text |-> ""]
    ELSE LET stats == Head(result.stats)
             n == result.buildings_affected
         IN [date |-> toLocaleDateString(dateRead),
             time |-> toLocaleTimeString(timeRead),
             buildings_affected |-> n,
             residential |-> FloorMul(n, Double07),
             commercial |-> FloorMul(n, Double02),
             industrial |-> FloorMul(n, Double01),
             losses |-> estimateFinancialLoss(n, stats.flooded_area_km2),
             recommendation |-> recommendation(stats.flood_percentage),
             evacuation |-> Some(CeilMul(n, Double03)),
             roads |-> CeilMul(stats.flooded_area_km2, Double05),
             pumps |-> stats.flooded_area_km2 * 1000]

\* the alert of the Dashboard: its level and the evacuation count in its text
alert(stats, buildings_affected) ==
    IF stats.flood_percentage > 30
    THEN [level |-> "WYSOKI POZIOM ZAGROZENIA",
          evacuation |-> Some(CeilMul(buildings_affected, Double05))]
    ELSE IF stats.flood_percentage > 15
         THEN [level |-> "SREDNI POZIOM ZAGROZENIA",
               evacuation |-> Some(CeilMul(buildings_affected, Double02))]
         ELSE [level |-> "NISKI POZIOM ZAGROZENIA", evacuation |-> NULL]

\* what Dashboard({result, isLoading}) renders
Dashboard(result, isLoading) ==
    IF isLoading THEN [spinner |-> TRUE]
    ELSE IF result = NULL \/ Head(result).stats = NULL THEN [placeholder |-> TRUE]
    ELSE LET r == Head(result) IN
         [losses |-> estimateFinancialLoss(r.buildings_affected,
                                           Head(r.stats).flooded_area_km2),
          alert |-> alert(Head(r.stats), r.buildings_affected)]

\* The analysis results the Dashboard is shown: the backend's statistics,
\* which the frontend does not validate, and a result without statistics.
DashboardResults ==
    {[status |-> "completed", buildings_affected |-> n,
      stats |-> Some([flood_percentage |-> p, flooded_area_km2 |-> a])] :
        n \in BuildingCounts, a \in FloodedAreas, p \in FloodPercentages}
    \cup {[status |-> "failed", buildings_affected |-> 0, stats |-> NULL]}

\* App renders <Dashboard result={result} isLoading={isLoading} />, inside
\* {!isPredictionMode && !isPredicting && ( ... )}
renderDashboard ==
    /\ ~isPredictionMode /\ ~isPredicting
    /\ view' = Some(Dashboard(state.result, state.isLoading))
    /\ UNCHANGED <<report, download, utcOffset, clock, appVars, monitorVars, selectorVars>>

\* the instants the model observes: the last second of a day and the first
\* seconds of a day, of two days
InWindow(now) ==
    /\ now < 2 * SecondsPerDay
    /\ \/ now % SecondsPerDay <= MaxClock
       \/ now % SecondsPerDay = SecondsPerDay - 1

\* the click on the report button, which the Dashboard shows next to its
\* cards while App shows the Dashboard: downloadReport.  It reads the clock
\* three times, twice in generateReport and once for the file name, and
\* the clock may pass to the next second between two of the reads.
downloadReport ==
    /\ ~isPredictionMode /\ ~isPredicting
    /\ ~state.isLoading
    /\ state.result # NULL /\ Head(state.result).stats # NULL
    /\ \E timeRead \in {clock, clock + 1} : \E nameRead \in {clock, clock + 1} :
          /\ timeRead <= nameRead /\ InWindow(nameRead)
          /\ report' = Some(generateReport(Head(state.result), clock, timeRead))
          /\ download' = Some(toISOString(nameRead))
          /\ clock' = nameRead
    /\ UNCHANGED <<view, utcOffset, appVars, monitorVars, selectorVars>>

\* time passes: by a second, or by a day less a second
advanceClock(d) ==
    /\ InWindow(clock + d)
    /\ clock' = clock + d
    /\ UNCHANGED <<view, report, download, utcOffset, appVars, monitorVars,
                   selectorVars>>

(***************************************************************************)
(* DashboardSpec: the Dashboard after an analysis has published a result.  *)
(***************************************************************************)

DashboardInit ==
    /\ \E r \in DashboardResults : state = setResult(r, <<>>)
    /\ prediction = NULL
    /\ isPredicting = FALSE
    /\ predictionError = NULL
    /\ selectedBbox = NULL
    /\ mode = "analysis"
    /\ predictionHours = DefaultPredictionHours
    /\ dateBefore = DefaultDateBefore
    /\ dateAfter = DefaultDateAfter
    /\ polarization = DefaultPolarization
    /\ tasks = <<>>
    /\ alerts = 0
    /\ isConnected = FALSE
    /\ monitor = "inactive"
    /\ interval = FALSE
    /\ probes = <<>>
    /\ ticks = 0
    /\ view = NULL
    /\ report = NULL
    /\ download = NULL
    /\ utcOffset \in UtcOffsets
    /\ clock = 0
    /\ drawing = FALSE
    /\ startPoint = NULL
    /\ bounds = NULL
    /\ pointer = NULL
    /\ emissions = 0

DashboardNext ==
    \/ renderDashboard
    \/ downloadReport
    \/ \E d \in {1, SecondsPerDay - 1} : advanceClock(d)

DashboardSpec == DashboardInit /\ [][DashboardNext]_vars

(***************************************************************************)
(* Properties                                                              *)
(***************************************************************************)

\* The orchestrator state the presentation reads.
live == <<state, prediction, isPredicting, predictionError>>

\* This step issues a new invocation (it is the last of tasks').
Issues == Len(tasks') = Len(tasks) + 1
\* This step is the arrival of a response to a request of invocation t.
Responded(t) == tasks'[t].outcome # tasks[t].outcome

\* C1: stale-response suppression.  When a response of invocation a arrives
\* after an invocation b, issued later than a, has already resolved, the
\* response is discarded: result, buildings, prediction, the pending flags
\* and the error messages stay as b left them.
StaleSuppression ==
    [][\A a \in DOMAIN tasks :
          (Responded(a) /\ \E b \in DOMAIN tasks : b > a /\ ~Pending(b))
             => UNCHANGED live]_vars

\* C2: mutual exclusivity.  The analysis result and the prediction are never
\* both live.
MutualExclusivity == ~(state.result # NULL /\ prediction # NULL)

\* C2 witness: an analysis result is live after a prediction had been
\* published and a later analysis cleared it.
MutualExclusivityCase ==
    /\ state.result # NULL
    /\ prediction = NULL
    /\ \E p, a \in DOMAIN tasks :
          /\ IsPredictionKind(tasks[p].kind) /\ tasks[p].stage = "done"
          /\ tasks[a].kind = "runAnalysis" /\ tasks[a].stage = "done"
          /\ state.result = Some(AnalysisResponse(a))

\* C3: clear-before-request.  The step that issues an analysis (or the
\* analysis demo) leaves no prediction live, and the step that issues a
\* prediction (or the prediction demo) leaves no analysis result live.
ClearBeforeRequest ==
    [][Issues =>
         LET k == tasks'[Len(tasks')].kind IN
         /\ IsAnalysisKind(k) => prediction' = NULL
         /\ IsPredictionKind(k) => state'.result = NULL]_vars

\* C4: partial-failure tolerance.  When the buildings request of runAnalysis
\* fails after the analysis request succeeded, the invocation ends normally
\* with the analysis result published, no buildings, isLoading false and no
\* error.
PartialFailureTolerance ==
    [][\A t \in DOMAIN tasks :
          (tasks[t].kind = "runAnalysis" /\ tasks[t].outcome = <<"ok">>
             /\ tasks'[t].outcome = <<"ok", "error">>)
          => /\ tasks'[t].stage = "done"
             /\ state' = [result |-> Some(AnalysisResponse(t)), buildings |-> <<>>,
                          isLoading |-> FALSE, error |-> NULL]]_vars

\* C5: clear() supersedes in-flight work.  A call of clearResults while an
\* analysis or demo request is pending leaves the hook Idle, and the later
\* arrival of a response to that request leaves it Idle.
ClearSupersedes ==
    [][\A t \in DOMAIN tasks :
          /\ (~tasks[t].cleared /\ tasks'[t].cleared) => state' = InitialState
          /\ (tasks[t].cleared /\ Responded(t) /\ state = InitialState)
                => state' = InitialState]_vars

\* C6: switching the Sidebar's mode returns the orchestrator to Idle: after
\* the switch no analysis result and no prediction is live and no operation
\* is pending.
ModeSwitchReturnsToIdle ==
    [][mode' # mode =>
         /\ state'.result = NULL /\ prediction' = NULL
         /\ ~state'.isLoading /\ ~isPredicting'
         /\ \A t \in DOMAIN tasks : ~Pending(t)']_vars

\* C7: failure surfacing.  When the primary request of runAnalysis,
\* loadDemoData or handlePredict fails, the invocation ends in its catch
\* block, its pending flag is false, a non-empty error message is stored
\* (error, respectively predictionError) and no outcome is published.
FailureSurfacing ==
    [][\A t \in DOMAIN tasks :
          (tasks[t].outcome = <<>> /\ tasks'[t].outcome = <<"error">>
             /\ tasks[t].kind \in {"runAnalysis", "loadDemoData", "handlePredict"})
          => /\ tasks'[t].stage = "failed"
             /\ IF tasks[t].kind = "handlePredict"
                THEN ~isPredicting' /\ predictionError' # NULL
                     /\ Head(predictionError') # ""
                ELSE ~state'.isLoading /\ state'.error # NULL
                     /\ Head(state'.error) # ""
             /\ state'.result = state.result
             /\ state'.buildings = state.buildings
             /\ prediction' = prediction]_vars

\* C7 witness: an analysis, an analysis demo and a prediction have each
\* failed at their primary request, with both error messages stored.
FailureSurfacingCase ==
    /\ \A k \in {"runAnalysis", "loadDemoData", "handlePredict"} :
          \E t \in DOMAIN tasks : tasks[t].kind = k /\ tasks[t].outcome = <<"error">>
    /\ state.error # NULL /\ ~state.isLoading
    /\ predictionError # NULL /\ ~isPredicting

\* C8: the prediction demo follows the path of a user prediction:
\* handleLoadPredictionDemo clears predictionError when it enters Pending,
\* and when its request fails it ends with isPredicting false and a
\* predictionError stored.
PredictionDemoSamePath ==
    [][/\ (Issues /\ tasks'[Len(tasks')].kind = "handleLoadPredictionDemo")
             => isPredicting' /\ predictionError' = NULL
       /\ \A t \in DOMAIN tasks :
             (tasks[t].kind = "handleLoadPredictionDemo"
                /\ tasks[t].outcome = <<>> /\ tasks'[t].outcome = <<"error">>)
             => ~isPredicting' /\ predictionError' # NULL]_vars

\* C9: bounding-box validation.  While no bounding box is committed, a
\* submit of the Sidebar form starts neither an analysis nor a prediction:
\* it shows the alert and leaves the orchestrator state, the pending flags
\* and the issued requests as they were.
BboxValidation ==
    [][selectedBbox = NULL =>
         /\ Issues => tasks'[Len(tasks')].kind
                         \in {"loadDemoData", "handleLoadPredictionDemo"}
         /\ alerts' # alerts => UNCHANGED <<live, tasks>>]_vars

\* C9 witness: the form was submitted in analysis mode with no box committed:
\* the alert was shown and nothing was issued.
BboxValidationCase ==
    selectedBbox = NULL /\ alerts > 0 /\ tasks = <<>> /\ mode = "analysis"

\* C10: horizon validation.  Every prediction that reached Pending has
\* prediction_hours in 1..24 and has issued exactly one prediction request
\* (a prediction_hours of 0 or 25 is rejected before Pending).
HorizonValidation ==
    \A t \in DOMAIN tasks :
        tasks[t].kind = "handlePredict" =>
            /\ tasks[t].request.prediction_hours \in SliderMin..SliderMax
            /\ Len(tasks[t].sent) = 1
            /\ tasks[t].sent[1].url = "/api/predict"

\* The pending flag of an invocation: isLoading of the hook for runAnalysis
\* and loadDemoData, isPredicting of App for the two prediction handlers.
PendingFlag(k) == IF IsAnalysisKind(k) THEN state.isLoading ELSE isPredicting

\* C11: provided every request is answered or times out, every invocation of
\* runAnalysis, loadDemoData, handlePredict and handleLoadPredictionDemo
\* leaves its pending stage, the step in which it does so sets its pending
\* flag to false, and a raised pending flag is eventually lowered.
Termination ==
    /\ \A t \in 1..MaxLiveOps :
          (t \in DOMAIN tasks /\ Pending(t)) ~> (t \in DOMAIN tasks /\ ~Pending(t))
    /\ [][\A t \in DOMAIN tasks :
             Pending(t) /\ ~Pending(t)' => ~PendingFlag(tasks[t].kind)']_vars
    /\ state.isLoading ~> ~state.isLoading
    /\ isPredicting ~> ~isPredicting

\* C11 witness: an analysis and a prediction invocation have both ended, one
\* of them by the request timeout, and both pending flags are down.
TerminationCase ==
    /\ \E t \in DOMAIN tasks : IsAnalysisKind(tasks[t].kind) /\ ~Pending(t)
    /\ \E t \in DOMAIN tasks : IsPredictionKind(tasks[t].kind) /\ ~Pending(t)
    /\ \E t \in DOMAIN tasks : tasks[t].stage = "failed"
    /\ ~state.isLoading /\ ~isPredicting

\* the endpoint of the primary request of each kind of invocation
PrimaryUrl(k) ==
    CASE k = "runAnalysis" -> "/api/analyze"
      [] k = "loadDemoData" -> "/api/demo"
      [] k = "handlePredict" -> "/api/predict"
      [] k = "handleLoadPredictionDemo" -> "/api/predict/demo"

\* the requests on the wire, over all invocations
RECURSIVE RequestCount(_)
RequestCount(ts) == IF ts = <<>> THEN 0 ELSE Len(Head(ts).sent) + RequestCount(Tail(ts))

\* C12: there is no automatic retry. Every invocation has issued its primary
\* request exactly once, and runAnalysis its buildings request at most once,
\* which it issues only when its primary request succeeded; an invocation
\* that has ended issues nothing more, and a step in which a request fails
\* puts no request on the wire: only a new invocation does.
NoRetry ==
    /\ [](\A t \in DOMAIN tasks :
            /\ Len(tasks[t].sent) \in {1, 2}
            /\ tasks[t].sent[1].url = PrimaryUrl(tasks[t].kind)
            /\ Len(tasks[t].sent) = 2 =>
                  /\ tasks[t].kind = "runAnalysis"
                  /\ tasks[t].sent[2].url = "/api/buildings"
                  /\ tasks[t].outcome # <<>> /\ tasks[t].outcome[1] = "ok")
    /\ [][/\ Len(tasks') >= Len(tasks)
          /\ \A t \in DOMAIN tasks :
                /\ ~Pending(t) => tasks'[t].sent = tasks[t].sent
                /\ Responded(t) /\ tasks'[t].stage = "failed" =>
                      /\ RequestCount(tasks') = RequestCount(tasks)
                      /\ ~Pending(t)']_vars

\* C12 witness: an analysis whose buildings request failed has ended with
\* two requests issued, and a demo invocation whose only request failed
\* with one.
NoRetryCase ==
    /\ \E t \in DOMAIN tasks :
          /\ tasks[t].kind = "runAnalysis" /\ tasks[t].stage = "failed"
          /\ tasks[t].outcome = <<"ok", "error">> /\ Len(tasks[t].sent) = 2
    /\ \E t \in DOMAIN tasks :
          /\ tasks[t].kind = "loadDemoData" /\ tasks[t].stage = "failed"
          /\ Len(tasks[t].sent) = 1

\* This step is the completion of probe p with status st.
Completes(p, st) == probes[p].status = "pending" /\ probes'[p].status = st

\* C13: the connectivity flag starts false; the step in which a probe
\* completes successfully leaves it true, the step in which a probe fails
\* (network error, non-success response, timeout) leaves it false, and no
\* other step changes it.
FlagFollowsProbes ==
    /\ ~isConnected
    /\ [][/\ \A p \in DOMAIN probes :
                /\ Completes(p, "ok") => isConnected'
                /\ Completes(p, "failed") => ~isConnected'
          /\ isConnected' # isConnected =>
                \E p \in DOMAIN probes : Completes(p, "ok") \/ Completes(p, "failed")]_vars

\* C13 witness: the flag was raised by a successful probe and lowered again
\* by a later probe that failed, with an orchestrator operation under way.
FlagFollowsProbesCase ==
    /\ ~isConnected
    /\ \E p, q \in DOMAIN probes :
          p < q /\ probes[p].status = "ok" /\ probes[q].status = "failed"
    /\ tasks # <<>>

\* C14: the activation of the monitor issues one probe at once and
\* registers the timer; while the monitor is active every elapsed period of
\* ProbeIntervalMs issues exactly one probe, so that an active monitor has
\* issued one probe more than periods have elapsed; and once the monitor is
\* torn down the timer is cancelled, it stays torn down and no probe is
\* issued any more.
MonitorLifecycle ==
    /\ [](monitor = "inactive" => probes = <<>> /\ ~interval)
    /\ [](monitor = "active" => interval /\ Len(probes) = ticks + 1)
    /\ [](monitor = "torn" => ~interval)
    /\ [][/\ monitor = "inactive" /\ monitor' = "active" =>
                probes' = <<[issued |-> 0, status |-> "pending"]>>
          /\ monitor = "active" /\ ticks' = ticks + 1 =>
                probes' = Append(probes, [issued |-> ticks + 1, status |-> "pending"])
          /\ monitor = "active" /\ ticks' = ticks /\ monitor' = "active" =>
                Len(probes') = Len(probes)
          /\ monitor = "torn" => monitor' = "torn" /\ Len(probes') = Len(probes)]_vars

\* C14 witness: the monitor probed on activation and on a timer tick, was
\* torn down, and a further period has elapsed without a probe.
MonitorLifecycleCase ==
    /\ monitor = "torn"
    /\ Len(probes) >= 2
    /\ ticks >= Len(probes)

\* C15: a step that issues or completes a health probe leaves result,
\* buildings, the pending flags, the error messages and the prediction
\* unchanged; a step of the orchestrator leaves isConnected unchanged; and
\* whatever the flag, handleAnalyze, handlePredict and the two demo handlers
\* can be invoked.
Independence ==
    /\ [][/\ probes' # probes => UNCHANGED <<live, tasks>>
          /\ (tasks' # tasks \/ live' # live) => UNCHANGED monitorVars]_vars
    /\ [](/\ \A r \in AnalysisRequests : ENABLED handleAnalyze(r)
          /\ \A r \in PredictionRequests : ENABLED handlePredict(r)
          /\ ENABLED handleLoadDemo
          /\ ENABLED handleLoadPredictionDemo)

\* C15 witness: a probe has failed and the flag is down while an operation
\* of the orchestrator is pending.
IndependenceCase ==
    /\ ~isConnected
    /\ \E p \in DOMAIN probes : probes[p].status = "failed"
    /\ \E p \in DOMAIN probes : probes[p].status = "pending"
    /\ \E t \in DOMAIN tasks : Pending(t)
    /\ state.isLoading \/ isPredicting

\* The result the Dashboard is given, its statistics, and whether the
\* Dashboard has rendered its cards / the report has been generated from it.
Shown == Head(state.result)
ShownStats == Head(Shown.stats)
Rendered == view # NULL /\ "losses" \in DOMAIN Head(view)
Generated == report # NULL /\ "recommendation" \in DOMAIN Head(report)

\* C16: estimateFinancialLoss(0, 0) is 0 in all four amounts;
\* estimateFinancialLoss(10, 4) is 3,250,000 for buildings, 600,000 for
\* infrastructure, 60,000 for agriculture and 3,910,000 in total; and for
\* every non-negative input n, area the building amount is computed from
\* floor(0.7 n), floor(0.2 n) and floor(0.1 n), the infrastructure amount
\* from ceil(area / 2), and the total is the sum of the three amounts.
LossReference ==
    Rendered /\ Shown.buildings_affected >= 0 /\ ShownStats.flooded_area_km2 >= 0 =>
        LET n == Shown.buildings_affected
            area == ShownStats.flooded_area_km2
            losses == Head(view).losses
        IN /\ losses.buildingDamage =
                  ((7 * n) \div 10) * DAMAGE_COSTS.residential
                  + ((2 * n) \div 10) * DAMAGE_COSTS.commercial
                  + (n \div 10) * DAMAGE_COSTS.industrial
           /\ losses.infrastructureDamage = ((area + 1) \div 2) * DAMAGE_COSTS.infrastructure
           /\ 10 * losses.agriculturalLoss = 3 * area * DAMAGE_COSTS.agricultural
           /\ losses.totalLoss = losses.buildingDamage + losses.infrastructureDamage
                                 + losses.agriculturalLoss
           /\ n = 0 /\ area = 0 =>
                 losses = [totalLoss |-> 0, buildingDamage |-> 0,
                           infrastructureDamage |-> 0, agriculturalLoss |-> 0]
           /\ n = 10 /\ area = 4 =>
                 losses = [totalLoss |-> 3910000, buildingDamage |-> 3250000,
                           infrastructureDamage |-> 600000, agriculturalLoss |-> 60000]

\* C17: for a negative buildingsAffected or a negative floodedAreaKm2 the
\* estimator reports a validation error and returns no estimate: the
\* Dashboard never holds a loss estimate computed from such input.
RejectsNegative ==
    Rendered /\ (Shown.buildings_affected < 0 \/ ShownStats.flooded_area_km2 < 0) =>
        "totalLoss" \notin DOMAIN Head(view).losses

\* C18: generateReport depends on its arguments only: generating the report
\* again from the same result, at whatever wall-clock time, returns the
\* same text.
ReportDeterminism ==
    [][report # NULL /\ report' # NULL /\ state' = state => report' = report]_vars

\* C19: the recommendation line of the report is the high-severity text
\* iff flood_percentage > 30, the medium-severity text iff
\* 15 < flood_percentage <= 30 and the low-severity text iff
\* flood_percentage <= 15, and the alert of the Dashboard is of the same
\* level for the same result.
BandSelection ==
    LET p == ShownStats.flood_percentage
        Banded(line) ==
            /\ line = "WYSOKI POZIOM ZAGROZENIA" <=> p > 30
            /\ line = "SREDNI POZIOM ZAGROZENIA" <=> (15 < p /\ p <= 30)
            /\ line = "NISKI POZIOM ZAGROZENIA" <=> p <= 15
    IN /\ Generated => Banded(Head(report).recommendation)
       /\ Rendered => Banded(Head(view).alert.level)
       /\ Generated /\ Rendered => Head(report).recommendation = Head(view).alert.level

\* C19 witness: a result whose flood percentage is on a threshold has been
\* rendered and reported: 30 as medium, or 15 as low.
BandSelectionCase ==
    /\ Generated /\ Rendered
    /\ \/ /\ ShownStats.flood_percentage = 30
          /\ Head(report).recommendation = "SREDNI POZIOM ZAGROZENIA"
       \/ /\ ShownStats.flood_percentage = 15
          /\ Head(report).recommendation = "NISKI POZIOM ZAGROZENIA"

\* C20: the evacuation count written into the report is 50% of
\* buildings_affected in the high-severity band, 20% of buildings_affected
\* in the medium-severity band, and there is none in the low-severity band.
ReportEvacuation ==
    Generated /\ Shown.buildings_affected >= 0 =>
        LET p == ShownStats.flood_percentage
            n == Shown.buildings_affected
        IN Head(report).evacuation =
               IF p > 30 THEN Some((n + 1) \div 2)
               ELSE IF p > 15 THEN Some((n + 4) \div 5)
               ELSE NULL

\* C24: runAnalysis issues its buildings request only in the step in which
\* its primary request succeeds, for the bbox of the primary request; an
\* invocation whose primary request failed has issued no buildings request.
Sequencing ==
    /\ [][\A t \in DOMAIN tasks :
             tasks[t].kind = "runAnalysis" /\ Len(tasks'[t].sent) > Len(tasks[t].sent) =>
                 /\ tasks[t].stage = "primary" /\ tasks[t].outcome = <<>>
                 /\ tasks'[t].outcome = <<"ok">>
                 /\ tasks'[t].sent = Append(tasks[t].sent,
                        [url |-> "/api/buildings",
                         body |-> [bbox |-> tasks[t].sent[1].body.bbox]])]_vars
    /\ [](\A t \in DOMAIN tasks :
             tasks[t].kind = "runAnalysis" =>
                 /\ tasks[t].sent[1].url = "/api/analyze"
                 /\ tasks[t].sent[1].body = tasks[t].request
                 /\ tasks[t].outcome = <<>> => Len(tasks[t].sent) = 1
                 /\ tasks[t].outcome = <<"error">> => Len(tasks[t].sent) = 1
                 /\ tasks[t].outcome # <<>> /\ tasks[t].outcome[1] = "ok" =>
                       /\ Len(tasks[t].sent) = 2
                       /\ tasks[t].sent[2].body.bbox = tasks[t].request.bbox)

\* C24 witness: one analysis has its buildings request on the wire for the
\* bbox it analysed, another has failed on its primary request.
SequencingCase ==
    /\ \E t \in DOMAIN tasks :
          /\ tasks[t].kind = "runAnalysis" /\ tasks[t].stage = "buildings"
          /\ tasks[t].sent[2].body.bbox = tasks[t].request.bbox
    /\ \E t \in DOMAIN tasks :
          /\ tasks[t].kind = "runAnalysis" /\ tasks[t].outcome = <<"error">>
          /\ Len(tasks[t].sent) = 1

\* C27: a failing runAnalysis or loadDemoData never itself changes result or
\* buildings.  The call leaves them as they are (it raises isLoading and
\* clears error only); the arrival of the analysis of a runAnalysis that
\* goes on to its buildings request leaves the hook state as it is; and the
\* step in which the invocation fails leaves result and buildings as they
\* were, lowers isLoading, stores the message of the error, throws the
\* error on to the caller and leaves the prediction, the flags and the
\* selected box of App as they were (the error passes handleAnalyze's
\* setPrediction(null)).  So at the failure result and buildings differ from
\* their values before the call only by what other operations published or
\* cleared in between.
FailureFrame ==
    [][/\ (Issues /\ IsAnalysisKind(tasks'[Len(tasks')].kind)) =>
             /\ state'.result = state.result
             /\ state'.buildings = state.buildings
             /\ tasks'[Len(tasks')].before =
                    [result |-> state.result, buildings |-> state.buildings]
             /\ state'.isLoading /\ state'.error = NULL
       /\ \A t \in DOMAIN tasks :
             /\ (IsAnalysisKind(tasks[t].kind) /\ Responded(t)
                   /\ tasks'[t].stage = "buildings") => state' = state
             /\ (IsAnalysisKind(tasks[t].kind) /\ Responded(t)
                   /\ tasks'[t].stage = "failed") =>
                   /\ state'.result = state.result
                   /\ state'.buildings = state.buildings
                   /\ ~state'.isLoading
                   /\ state'.error # NULL
                   /\ tasks'[t].rethrown
                   /\ UNCHANGED <<prediction, isPredicting, predictionError,
                                  selectedBbox>>]_vars

\* C27 witness: an analysis has failed and thrown its error on, next to the
\* result of an operation that was published after the analysis was called.
FailureFrameCase ==
    /\ \E t \in DOMAIN tasks :
          /\ IsAnalysisKind(tasks[t].kind) /\ tasks[t].stage = "failed"
          /\ tasks[t].rethrown
          /\ tasks[t].before.result = NULL
    /\ state.result # NULL
    /\ state.error # NULL

\* C27 as stated: when runAnalysis or loadDemoData fails, result and
\* buildings have exactly the values they had before the call.
FailureFrameSinceCall ==
    [][\A t \in DOMAIN tasks :
          IsAnalysisKind(tasks[t].kind) /\ Responded(t) /\ tasks'[t].stage = "failed" =>
              /\ state'.result = tasks[t].before.result
              /\ state'.buildings = tasks[t].before.buildings]_vars

\* C28: after a step in which an operation completes successfully and
\* which leaves no operation pending, the displayed error
\* (error || predictionError) is empty.
NoStaleError ==
    [][\A t \in DOMAIN tasks :
          (/\ Responded(t) /\ tasks'[t].stage = "done"
           /\ \A u \in DOMAIN tasks : ~Pending(u)') =>
              state'.error = NULL /\ predictionError' = NULL]_vars

\* C25: for a building count n >= 0 the three partitions the report
\* restates, Math.floor(n * 0.7), Math.floor(n * 0.2) and
\* Math.floor(n * 0.1), sum to s with n - 2 <= s <= n, and the building
\* damage of the estimate is priced from the same three partitions.
PartitionBound ==
    Generated /\ Shown.buildings_affected >= 0 =>
        LET n == Shown.buildings_affected
            r == Head(report)
            s == r.residential + r.commercial + r.industrial
        IN /\ n - 2 <= s /\ s <= n
           /\ r.residential >= 0 /\ r.commercial >= 0 /\ r.industrial >= 0
           /\ r.losses.buildingDamage =
                  r.residential * DAMAGE_COSTS.residential
                  + r.commercial * DAMAGE_COSTS.commercial
                  + r.industrial * DAMAGE_COSTS.industrial

\* C25 witness: a report for 9 buildings restates 6 + 1 + 0 = 7 of them.
PartitionBoundCase ==
    /\ Generated
    /\ Shown.buildings_affected = 9
    /\ Head(report).residential + Head(report).commercial + Head(report).industrial = 7

\* C26: whenever a probe has completed, the flag is the outcome of the
\* most recently issued probe among the completed ones.
ProbeOrdering ==
    LET completed == {p \in DOMAIN probes : probes[p].status # "pending"} IN
    completed # {} =>
        LET newest == CHOOSE p \in completed : \A q \in completed : q <= p
        IN isConnected = (probes[newest].status = "ok")

\* the operations in flight
InFlight == {t \in DOMAIN tasks : Pending(t)}

\* C30: when operations are started only through the Sidebar's buttons,
\* which are disabled while isLoading || isPredicting, at most one
\* operation is in flight at any time, and the busy flag is raised exactly
\* while one is in flight, the wait for the buildings request included.
BusyGating ==
    /\ Cardinality(InFlight) <= 1
    /\ isAnalyzing <=> InFlight # {}
    /\ state.isLoading <=> \E t \in InFlight : IsAnalysisKind(tasks[t].kind)
    /\ isPredicting <=> \E t \in InFlight : IsPredictionKind(tasks[t].kind)

\* C30 witness: after an operation that ended, an analysis waits for its
\* buildings request with the busy flag raised.
BusyGatingCase ==
    /\ \E t \in DOMAIN tasks : ~Pending(t)
    /\ \E t \in InFlight : tasks[t].stage = "buildings"
    /\ isAnalyzing

\* C29: while a prediction is live the overlay handed to the map is the
\* risk zones of that prediction or nothing, never the flood_geojson of an
\* analysis result; while no prediction is live it is the flood_geojson of
\* the live analysis result, or nothing.
OverlayOwnership ==
    /\ isPredictionMode =>
          /\ displayGeoJSON = Head(prediction).risk_zones_geojson
          /\ displayGeoJSON # NULL => Head(displayGeoJSON).features[1].layer = "risk"
    /\ ~isPredictionMode =>
          /\ displayGeoJSON = IF state.result = NULL THEN NULL
                              ELSE Head(state.result).flood_geojson
          /\ displayGeoJSON # NULL => Head(displayGeoJSON).features[1].layer = "flood"

\* C29 witness: a prediction without risk zones is live after an analysis
\* completed, and the map is handed no overlay.
OverlayOwnershipCase ==
    /\ isPredictionMode
    /\ Head(prediction).risk_zones_geojson = NULL
    /\ \E t \in DOMAIN tasks : IsAnalysisKind(tasks[t].kind) /\ tasks[t].stage = "done"
    /\ displayGeoJSON = NULL

\* This step is a call of the selector's onSelect.
Emits == emissions' = emissions + 1

\* C21: the box a mouseup emits for the anchor a and the release point b is
\* the box emitted for the anchor b and the release point a, and it has
\* min_lon <= max_lon and min_lat <= max_lat.
Normalization ==
    [][Emits =>
          LET a == Head(startPoint)
              b == Head(pointer').latlng
              emitted == Head(selectedBbox')
              swapped == latLngBounds(b, a)
          IN /\ emitted = selectedBounds(swapped)
             /\ emitted = createBboxFromBounds(swapped.southWest, swapped.northEast)
             /\ emitted.min_lon <= emitted.max_lon
             /\ emitted.min_lat <= emitted.max_lat]_vars

\* C21 witness: a box has been emitted whose release point is its
\* south-west corner: the anchor was its north-east corner.
NormalizationCase ==
    /\ emissions > 0
    /\ pointer # NULL /\ Head(pointer).type = "mouseup"
    /\ selectedBbox # NULL
    /\ Head(selectedBbox).min_lon = Head(pointer).latlng.lng
    /\ Head(selectedBbox).min_lat = Head(pointer).latlng.lat
    /\ Head(selectedBbox).min_lon < Head(selectedBbox).max_lon
    /\ Head(selectedBbox).min_lat < Head(selectedBbox).max_lat

\* C22: no analysis or prediction request is issued for a box of zero
\* width or zero height.
DegenerateRejected ==
    \A t \in DOMAIN tasks :
        /\ tasks[t].request.bbox.min_lon < tasks[t].request.bbox.max_lon
        /\ tasks[t].request.bbox.min_lat < tasks[t].request.bbox.max_lat

\* C23: the selector starts to draw only on a mousedown with shift held,
\* recording the anchor; a mousemove emits nothing; a mouseup while drawing
\* emits one box, stops drawing and clears the anchor; a mouseup or
\* mousemove while not drawing, and a mousedown without shift, emit nothing
\* and leave drawing, startPoint and bounds as they are.
SelectorMachine ==
    /\ [](drawing <=> startPoint # NULL)
    /\ [][LET e == Head(pointer') IN
          /\ ~drawing /\ drawing' =>
                /\ e.type = "mousedown" /\ e.shiftKey
                /\ startPoint' = Some(e.latlng)
          /\ pointer' # pointer /\ e.type = "mousemove" =>
                /\ ~Emits /\ selectedBbox' = selectedBbox
                /\ UNCHANGED <<drawing, startPoint>>
          /\ pointer' # pointer /\ e.type = "mouseup" /\ drawing =>
                /\ Emits
                /\ ~drawing' /\ startPoint' = NULL
          /\ pointer' # pointer /\ ~drawing /\ e.type \in {"mouseup", "mousemove"} =>
                /\ ~Emits /\ selectedBbox' = selectedBbox
                /\ UNCHANGED <<drawing, startPoint, bounds>>
          /\ pointer' # pointer /\ e.type = "mousedown" /\ ~e.shiftKey =>
                /\ ~Emits /\ selectedBbox' = selectedBbox
                /\ UNCHANGED <<drawing, startPoint, bounds>>
          /\ emissions' # emissions => Emits /\ e.type = "mouseup" /\ drawing
          /\ selectedBbox' # selectedBbox => Emits]_vars

\* C23 witness: a box has been emitted, and afterwards the mouse moved
\* while the selector was idle.
SelectorMachineCase ==
    /\ emissions = 1
    /\ ~drawing /\ startPoint = NULL /\ bounds # NULL
    /\ pointer # NULL /\ Head(pointer).type = "mousemove"


=============================================================================
